---- MODULE Spec2Model ----
\* Buddy page-frame allocator of coursework/buddy.cpp (class BuddyPageAllocator).
\* Page descriptors are identified with their index in the descriptor table
\* (init() requires the table's first frame number to be 0, so index = PFN).
EXTENDS Integers, Sequences, FiniteSets, TLC

\* ------------------------------------------------------------------ bounds
\* Largest descriptor table of the general specification; Init also draws
\* the table one descriptor shorter, so odd and even lengths both occur.
MaxPgds == 4
\* Largest descriptor table of the scenario specifications.
MaxScenPgds == 9
\* Largest frame number of the first descriptor of the table handed to init().
MaxFirstPfn == 1
\* Number of scheduling entities of the scheduler specifications.
MaxEntities == 2
\* Number of steps of running (RuntimeTick ns of CPU time each) after which
\* the entities' CPU time is no longer advanced.
MaxTicks == 4

\* ------------------------------------------------------- program constants
MAX_ORDER == 18
\* sched-adv.cpp: initial priority values and deltas of the priority levels.
REALTIME_PRIO_BASE_VAL == 63
INTERACTIVE_PRIO_BASE_VAL == 127
NORMAL_PRIO_BASE_VAL == 191
DAEMON_PRIO_BASE_VAL == 255
REALTIME_PRIO_DELTA == 8
INTERACTIVE_PRIO_DELTA == 4
NORMAL_PRIO_DELTA == 2
DAEMON_PRIO_DELTA == 1
UINT8_MAX == 255

NULL == -1

Orders == 0..MAX_ORDER

\* PageDescriptorType as used by the allocator.
INVALID == "INVALID"
AVAILABLE == "AVAILABLE"
ALLOCATED == "ALLOCATED"
RESERVED == "RESERVED"

VARIABLES
    _pgds_len,      \* length of the descriptor table
    type,           \* type[p]: PageDescriptor::type
    prev_free,      \* prev_free[p]: PageDescriptor::prev_free (NULL or index)
    next_free,      \* next_free[p]: PageDescriptor::next_free (NULL or index)
    _free_areas,    \* _free_areas[o]: head of the order-o free list
    halt,           \* "run", or how the kernel stopped ("assert", "ub")
    owner,          \* history: who holds page p ("none","free","alloc","resv")
    allocs,         \* history: outstanding allocations <<pgd, order>>
    last,           \* history: the last API call and its result
    ctx,            \* ctx[c]: the call execution context c is running
    adv,            \* the MultiQueuePriorityValueScheduler: runqueues, _last_entity_ptr
    mq,             \* the MultipleQueuePriorityScheduler: runqueues, last_entity_ptr, ...
    entities,       \* entities[e]: priority() and cpu_runtime() of SchedulingEntity e
    irq             \* the CPU's interrupt flag and the calls made on UniqueIRQLock

vars == <<_pgds_len, type, prev_free, next_free, _free_areas, halt, owner, allocs, last, ctx, adv,
          mq, entities, irq>>

\* ------------------------------------------------------------ pure helpers
__two_pow(order) == 2^order

__in_ptr_bound_inclusive(elem_ptr, len) == 0 <= elem_ptr /\ elem_ptr <= len

__in_ptr_bound(elem_ptr, len) == 0 <= elem_ptr /\ elem_ptr < len

__aligned_by_order(block_ptr, order) == block_ptr % __two_pow(order) = 0

__prev_block_ptr(block_ptr, len, order) ==
    LET result_ptr == block_ptr - __two_pow(order)
    IN  IF __in_ptr_bound(result_ptr, len) THEN result_ptr ELSE NULL

__next_block_ptr(block_ptr, len, order) ==
    LET result_ptr == block_ptr + __two_pow(order)
    IN  IF __in_ptr_bound(result_ptr, len) THEN result_ptr ELSE NULL

\* smallest k with 2^k >= v  (v >= 1)
RECURSIVE log2ceil_from(_, _)
log2ceil_from(v, k) == IF __two_pow(k) >= v THEN k ELSE log2ceil_from(v, k + 1)

__log2ceil(v) == log2ceil_from(v, 0)

\* ------------------------------------------------------ allocator state
\* The operations below are functions on a record s holding the allocator's
\* mutable state; the actions copy the record into the variables.
Cur == [len |-> _pgds_len, type |-> type, prev_free |-> prev_free,
        next_free |-> next_free, _free_areas |-> _free_areas, halt |-> halt]

Halt(s, how) == [s EXCEPT !.halt = how]

SetType(s, p, t) == [s EXCEPT !.type[p] = t]
SetPrev(s, p, v) == [s EXCEPT !.prev_free[p] = v]
SetNext(s, p, v) == [s EXCEPT !.next_free[p] = v]
SetHead(s, o, v) == [s EXCEPT !._free_areas[o] = v]

\* buddy_of: the assertion of __prev_block_ptr/__next_block_ptr fails on a
\* block that is not aligned by order.
buddy_of_asserts(pgd, order) == ~__aligned_by_order(pgd, order)

buddy_of_next(s, pgd, order) == __next_block_ptr(pgd, s.len, order)

buddy_of(s, pgd, order) ==
    IF (pgd \div __two_pow(order)) % 2 = 1
    THEN __prev_block_ptr(pgd, s.len, order)
    ELSE __next_block_ptr(pgd, s.len, order)

\* ------------------------------------------------------------ split_block
\* Splits the order-source_order block block_ptr into two blocks of the order
\* below, both pushed on the front of that order's list (left half first).
\* "Maintain pgd & _free_areas state": the block leaves its list.
split_unlink_head_only(s, block_ptr, source_order) ==
    LET s1 == IF s._free_areas[source_order] = block_ptr
              THEN SetHead(s, source_order, s.next_free[block_ptr]) ELSE s
    IN  SetNext(SetPrev(s1, block_ptr, NULL), block_ptr, NULL)

split_unlink(s, block_ptr, source_order) ==
    LET s1 == IF s._free_areas[source_order] = block_ptr
              THEN SetHead(s, source_order, s.next_free[block_ptr]) ELSE s
        s2 == IF s1.prev_free[block_ptr] # NULL
              THEN SetNext(s1, s1.prev_free[block_ptr], s1.next_free[block_ptr]) ELSE s1
        s3 == IF s2.next_free[block_ptr] # NULL
              THEN SetPrev(s2, s2.next_free[block_ptr], s2.prev_free[block_ptr]) ELSE s2
    IN  SetNext(SetPrev(s3, block_ptr, NULL), block_ptr, NULL)

\* split_block that files the left half only.
split_block_drops_right(s, block_ptr, source_order) ==
    LET s4 == SetType(split_unlink(s, block_ptr, source_order), block_ptr, AVAILABLE)
        head == s4._free_areas[source_order - 1]
    IN  IF head = NULL
        THEN SetHead(s4, source_order - 1, block_ptr)
        ELSE SetHead(SetPrev(SetNext(s4, block_ptr, head), head, block_ptr),
                     source_order - 1, block_ptr)

split_block(s, block_ptr, source_order) ==
    LET nf == s.next_free[block_ptr]
    IN  IF ~(nf = NULL \/ nf < block_ptr \/ nf - block_ptr >= __two_pow(source_order))
        THEN Halt(s, "assert")
        ELSE IF source_order = 0
        THEN Halt(s, "ub")
        ELSE
        LET s4 == split_unlink(s, block_ptr, source_order)
            tgt_order == source_order - 1
            half_left == block_ptr
            half_right == buddy_of(s4, half_left, tgt_order)
        IN  IF buddy_of_asserts(half_left, tgt_order) \/ half_right < half_left
            THEN Halt(s4, "assert")
            ELSE
            LET s5 == SetType(SetType(s4, half_left, AVAILABLE), half_right, AVAILABLE)
                s6 == SetPrev(SetNext(s5, half_left, half_right), half_right, half_left)
                head == s6._free_areas[tgt_order]
                tgt_alignment == __two_pow(tgt_order)
            IN  IF head = NULL
                THEN SetHead(SetNext(SetPrev(s6, half_left, NULL), half_right, NULL),
                             tgt_order, half_left)
                ELSE IF head >= half_right + tgt_alignment \/ head + tgt_alignment <= half_left
                THEN SetHead(SetPrev(SetNext(SetPrev(s6, half_left, NULL), half_right, head),
                                     head, half_right),
                             tgt_order, half_left)
                ELSE Halt(s6, "assert")

\* ------------------------------------------------------------ merge_block
\* null_read: what reading buddy_ptr->type through a null buddy_ptr yields
\* ("fault": the kernel stops; "declined": a value other than AVAILABLE).
\* "Assert correct internal linkage": the left block is followed by the right.
merge_linked_unchecked(s, src_l_block, src_r_block) == TRUE

merge_linked(s, src_l_block, src_r_block) ==
    s.next_free[src_l_block] = src_r_block /\ s.prev_free[src_r_block] = src_l_block

merge_block(s, block_ptr, source_order, null_read) ==
    IF ~(0 <= source_order /\ source_order < MAX_ORDER) \/ buddy_of_asserts(block_ptr, source_order)
    THEN [s |-> Halt(s, "assert"), ok |-> FALSE]
    ELSE
    LET buddy_ptr == buddy_of(s, block_ptr, source_order)
        s1 == SetType(s, block_ptr, AVAILABLE)
        src_l_block == IF buddy_ptr < block_ptr THEN buddy_ptr ELSE block_ptr
        src_r_block == IF buddy_ptr < block_ptr THEN block_ptr ELSE buddy_ptr
    IN  IF buddy_ptr = NULL
        THEN IF null_read = "declined" THEN [s |-> s1, ok |-> FALSE]
                                       ELSE [s |-> Halt(s1, "ub"), ok |-> FALSE]
        ELSE IF s1.type[buddy_ptr] # AVAILABLE
        THEN [s |-> s1, ok |-> FALSE]
        ELSE IF ~merge_linked(s1, src_l_block, src_r_block)
        THEN [s |-> Halt(s1, "assert"), ok |-> FALSE]
        ELSE IF s1._free_areas[source_order] # src_l_block /\ s1.prev_free[src_l_block] = NULL
        THEN [s |-> Halt(s1, "ub"), ok |-> FALSE]
        ELSE
        LET s2 == IF s1._free_areas[source_order] # src_l_block
                  THEN SetNext(s1, s1.prev_free[src_l_block], s1.next_free[src_r_block]) ELSE s1
            s3 == IF s2.next_free[src_r_block] # NULL
                  THEN SetPrev(s2, s2.next_free[src_r_block], s2.prev_free[src_l_block]) ELSE s2
            s4 == SetHead(s3, source_order, s3.next_free[src_r_block])
            s5 == SetPrev(SetNext(SetNext(SetPrev(s4, src_l_block, NULL), src_l_block, NULL),
                                  src_r_block, NULL), src_r_block, NULL)
            tgt_block == src_l_block
            tgt_order == source_order + 1
            alignment == __two_pow(tgt_order)
            head == s5._free_areas[tgt_order]
        IN  IF head = NULL
            THEN [s |-> SetHead(s5, tgt_order, tgt_block), ok |-> TRUE]
            ELSE IF head + alignment <= tgt_block \/ tgt_block + alignment <= head
            THEN [s |-> SetHead(SetPrev(SetNext(s5, tgt_block, head), head, tgt_block),
                                tgt_order, tgt_block),
                  ok |-> TRUE]
            ELSE [s |-> Halt(s5, "assert"), ok |-> FALSE]

\* --------------------------------------------------------- allocate_pages
\* "Alter _free_areas state": the head's successor becomes the head.
alloc_unlink_keeps_head(s, allocated, order) == s

alloc_unlink_stale_prev(s, allocated, order) == SetHead(s, order, s.next_free[allocated])

alloc_unlink(s, allocated, order) ==
    LET s2 == SetHead(s, order, s.next_free[allocated])
    IN  IF s2._free_areas[order] # NULL
        THEN SetPrev(s2, s2._free_areas[order], NULL) ELSE s2

\* The for loop over o = order + 1 .. MAX_ORDER: the first order with a
\* non-empty list (there is one).
alloc_from_order_largest(s, order) ==
    LET larger == {o \in (order + 1)..MAX_ORDER : s._free_areas[o] # NULL}
    IN  CHOOSE o \in larger : \A o2 \in larger : o2 <= o

alloc_from_order(s, order) ==
    LET larger == {o \in (order + 1)..MAX_ORDER : s._free_areas[o] # NULL}
    IN  CHOOSE o \in larger : \A o2 \in larger : o <= o2

\* Result: the state after the call and the block returned (NULL: none).
RECURSIVE allocate_pages(_, _)
allocate_pages(s, order) ==
    IF s._free_areas[order] # NULL
    THEN
        LET allocated == s._free_areas[order]
            lim == allocated + __two_pow(order)
        IN  IF lim > s.len
            THEN [s |-> Halt(s, "ub"), res |-> NULL]
            ELSE
            LET s1 == [s EXCEPT !.type = [p \in DOMAIN s.type |->
                          IF allocated <= p /\ p < lim THEN AVAILABLE ELSE s.type[p]]]
            IN  IF s1.prev_free[allocated] # NULL
                THEN [s |-> Halt(s1, "assert"), res |-> NULL]
                ELSE
                LET s3 == alloc_unlink(s1, allocated, order)
                    allocated_buddy == buddy_of(s3, allocated, order)
                IN  IF \/ buddy_of_asserts(allocated, order)
                       \/ ~__in_ptr_bound(allocated_buddy, s3.len)
                       \/ allocated_buddy = allocated
                    THEN [s |-> Halt(s3, "assert"), res |-> NULL]
                    ELSE IF allocated_buddy < allocated
                    THEN [s |-> SetNext(SetPrev(s3, allocated, allocated_buddy), allocated, NULL),
                          res |-> allocated]
                    ELSE [s |-> SetNext(SetPrev(s3, allocated, NULL), allocated, allocated_buddy),
                          res |-> allocated]
    ELSE
        LET larger == {o \in (order + 1)..MAX_ORDER : s._free_areas[o] # NULL}
        IN  IF larger = {}
            THEN [s |-> s, res |-> NULL]
            ELSE
            LET from_order == alloc_from_order(s, order)
                again(s1) == IF s1.halt # "run" THEN [s |-> s1, res |-> NULL]
                             ELSE allocate_pages(s1, order)
            IN  again(split_block(s, s._free_areas[from_order], from_order))

\* ------------------------------------------------------------- free_pages
RECURSIVE free_coalesce(_, _, _, _, _)
free_coalesce(s, pgd, pgd_order, order, null_read) ==
    IF pgd_order < order
    THEN LET merged(r) == IF r.ok
                          THEN free_coalesce(r.s, pgd, pgd_order + 1, order, null_read)
                          ELSE r.s
         IN  merged(merge_block(s, pgd, pgd_order, null_read))
    ELSE s

\* The freed block becomes the head of _free_areas[pgd_order].
free_push_drops_block(s, pgd, pgd_order) ==
    SetNext(SetPrev(s, pgd, NULL), pgd, s._free_areas[pgd_order])

free_push(s, pgd, pgd_order) ==
    LET head == s._free_areas[pgd_order]
    IN  IF head = NULL
        THEN SetHead(SetNext(SetPrev(s, pgd, NULL), pgd, NULL), pgd_order, pgd)
        ELSE SetHead(SetPrev(SetNext(SetPrev(s, pgd, NULL), pgd, head), head, pgd),
                     pgd_order, pgd)

\* The order of the freed block, read off the distance to its bookmarked buddy.
free_order_overshoot(pgd, buddy_pgd) ==
    __log2ceil(IF buddy_pgd > pgd THEN buddy_pgd - pgd ELSE pgd - buddy_pgd) + 1

free_order(pgd, buddy_pgd) ==
    LET pgd_alignment == IF buddy_pgd > pgd THEN buddy_pgd - pgd ELSE pgd - buddy_pgd
    IN  __log2ceil(pgd_alignment)

free_pages(s, pgd, order, null_read) ==
    LET buddy_pgd == IF s.next_free[pgd] = NULL THEN s.prev_free[pgd] ELSE s.next_free[pgd]
    IN  IF buddy_pgd = NULL \/ buddy_pgd = pgd
        THEN Halt(s, "assert")
        ELSE
        LET pgd_order == free_order(pgd, buddy_pgd)
            s1 == SetType(s, pgd, AVAILABLE)
            s2 == free_push(s1, pgd, pgd_order)
        IN  free_coalesce(s2, pgd, pgd_order, order, null_read)

\* ------------------------------------------------------------- dump_state
\* The entries of the list that starts at p in state s, following next_free,
\* at most n of them.
RECURSIVE WalkIn(_, _, _)
WalkIn(s, p, n) ==
    IF p = NULL \/ n = 0 THEN <<>> ELSE <<p>> \o WalkIn(s, s.next_free[p], n - 1)

\* The order-o free list as the while loops walk it. A list with more
\* entries than the table has descriptors is cyclic.
FreeListIn(s, o) == WalkIn(s, s._free_areas[o], s.len + 1)

\* dump_state walks every list to its end and writes nothing; on a cyclic
\* list the while loop does not end.
dump_state_advances_head(s) ==
    LET used == {o \in Orders : s._free_areas[o] # NULL}
    IN  IF used = {} THEN s
        ELSE [s EXCEPT !._free_areas[CHOOSE o \in used : \A o2 \in used : o <= o2] = NULL]

dump_state(s) ==
    IF \E o \in Orders : Len(FreeListIn(s, o)) > s.len THEN Halt(s, "hang") ELSE s

\* ------------------------------------------------------ insert_page_range
\* The for loop: the largest order, scanning down from MAX_ORDER, at which
\* bound_base is aligned and the block ends inside the range.
insert_order_smallest(bound_base, bound_lim) == 0

insert_order_unaligned(bound_base, bound_lim) ==
    LET fits == {o \in Orders : bound_base + __two_pow(o) <= bound_lim}
    IN  CHOOSE o \in fits : \A o2 \in fits : o2 <= o

insert_order(bound_base, bound_lim) ==
    LET fits == {o \in Orders : /\ __aligned_by_order(bound_base, o)
                                /\ bound_base + __two_pow(o) <= bound_lim}
    IN  CHOOSE o \in fits : \A o2 \in fits : o2 <= o

RECURSIVE insert_loop(_, _, _)
insert_loop(s, bound_base, bound_lim) ==
    IF bound_base = bound_lim
    THEN s
    ELSE
    LET order == insert_order(bound_base, bound_lim)
        block_base == bound_base
        block_lim == bound_base + __two_pow(order)
        s1 == SetType(s, block_base, AVAILABLE)
        head == s1._free_areas[order]
        s2 == IF head = NULL
              THEN SetNext(SetPrev(s1, block_base, NULL), block_base, NULL)
              ELSE SetPrev(SetNext(SetPrev(s1, block_base, NULL), block_base, head),
                           head, block_base)
        s3 == SetHead(s2, order, block_base)
    IN  insert_loop(s3, block_lim, bound_lim)

insert_page_range(s, start, count) == dump_state(insert_loop(s, start, start + count))

\* ---------------------------------------------------------- reserve_block
\* Unlinks the block from _free_areas[order], stores the buddy bookmark and
\* marks it RESERVED (the loop over the block writes block_base->type only).
reserve_block_keeps_links(s, block_base, order) == SetType(s, block_base, RESERVED)

reserve_block(s, block_base, order) ==
    LET block_buddy == buddy_of(s, block_base, order)
        nf == s.next_free[block_base]
        pf == s.prev_free[block_base]
    IN  IF \/ buddy_of_asserts(block_base, order)
           \/ ~__in_ptr_bound(block_buddy, s.len)
           \/ block_buddy = block_base
        THEN Halt(s, "assert")
        ELSE IF s._free_areas[order] = block_base /\ pf # NULL
        THEN Halt(s, "assert")
        ELSE IF s._free_areas[order] # block_base /\ pf = NULL
        THEN Halt(s, "assert")
        ELSE
        LET s1 == IF s._free_areas[order] = block_base
                  THEN LET h == SetHead(s, order, nf)
                       IN  IF nf # NULL THEN SetPrev(h, nf, NULL) ELSE h
                  ELSE LET h == SetNext(s, pf, nf)
                       IN  IF nf # NULL THEN SetPrev(h, nf, pf) ELSE h
            s2 == IF block_buddy < block_base
                  THEN SetNext(SetPrev(s1, block_base, block_buddy), block_base, NULL)
                  ELSE SetNext(SetPrev(s1, block_base, NULL), block_base, block_buddy)
        IN  SetType(s2, block_base, RESERVED)

\* ------------------------------------------------------ remove_page_range
\* One of the four cases of the scan accepts the block.
remove_accepts(bound_base, bound_lim, order, block_base) ==
    LET block_lim == block_base + __two_pow(order)
    IN  \/ block_base = bound_base /\ block_lim = bound_lim
        \/ block_base = bound_base /\ block_lim < bound_lim
        \/ bound_base < block_base /\ block_lim = bound_lim
        \/ block_base <= bound_base /\ bound_lim <= block_lim

\* The positions in the order-o list of the entries the scan accepts.
remove_hits(s, bound_base, bound_lim, o) ==
    LET list == FreeListIn(s, o)
    IN  {k \in 1..Len(list) : remove_accepts(bound_base, bound_lim, o, list[k])}

\* The for/while scan: the first entry it accepts, going from MAX_ORDER down
\* and along each list. "none": the scan passes order 0 without a block, the
\* unsigned order wraps and _free_areas is read out of bounds. "hang": the
\* scan enters a cyclic list that holds no accepted block.
remove_scan(s, bound_base, bound_lim) ==
    LET stops == {o \in Orders : \/ remove_hits(s, bound_base, bound_lim, o) # {}
                                 \/ Len(FreeListIn(s, o)) > s.len}
    IN  IF stops = {}
        THEN [kind |-> "none", order |-> 0, block |-> NULL]
        ELSE
        LET o == CHOOSE x \in stops : \A y \in stops : y <= x
            hits == remove_hits(s, bound_base, bound_lim, o)
        IN  IF hits = {}
            THEN [kind |-> "hang", order |-> o, block |-> NULL]
            ELSE [kind |-> "block", order |-> o,
                  block |-> FreeListIn(s, o)[CHOOSE k \in hits : \A m \in hits : k <= m]]

\* The label find_block_for_bound with the working bound.
RECURSIVE remove_find(_, _, _)
remove_find(s, bound_base, bound_lim) ==
    LET again(s1, base, lim) == IF s1.halt # "run" THEN s1 ELSE remove_find(s1, base, lim)
        dumped(s1) == IF s1.halt # "run" THEN s1 ELSE dump_state(s1)
        case(kind, order, block_base, block_lim) ==
            IF kind = "none" THEN Halt(s, "ub")
            ELSE IF kind = "hang" THEN Halt(s, "hang")
            ELSE IF block_base = bound_base /\ block_lim = bound_lim
            THEN dumped(reserve_block(s, block_base, order))
            ELSE IF block_base = bound_base /\ block_lim < bound_lim
            THEN again(reserve_block(s, block_base, order), block_lim, bound_lim)
            ELSE IF bound_base < block_base /\ block_lim = bound_lim
            THEN again(reserve_block(s, block_base, order), bound_base, block_base)
            ELSE again(split_block(s, block_base, order), bound_base, bound_lim)
        scanned(found) ==
            case(found.kind, found.order, found.block, found.block + __two_pow(found.order))
    IN  scanned(remove_scan(s, bound_base, bound_lim))

remove_page_range(s, start, count) == remove_find(s, start, start + count)

\* ------------------------------------------------------------------- init
\* The table handed to init(): every descriptor INVALID and unlinked, every
\* free list empty.
init(len) ==
    [len |-> len,
     type |-> [p \in 0..(len - 1) |-> INVALID],
     prev_free |-> [p \in 0..(len - 1) |-> NULL],
     next_free |-> [p \in 0..(len - 1) |-> NULL],
     _free_areas |-> [o \in Orders |-> NULL],
     halt |-> "run"]

\* ------------------------------------------- sched-adv.cpp: RunqueueEntry
\* SchedulingEntityPriority: REALTIME, INTERACTIVE, NORMAL, DAEMON; the value
\* is the index of the level's runqueue plus one (sequences start at 1).
REALTIME == 1
INTERACTIVE == 2
NORMAL == 3
DAEMON == 4
Levels == REALTIME..DAEMON

\* Scheduling entities (SchedulingEntity*); NULL is no entity.
Entities == 1..MaxEntities

\* RunqueueEntry(SchedulingEntity* entity) for an entity of the given level.
RunqueueEntry(entity, priority) ==
    [entity |-> entity,
     priority_value |-> CASE priority = REALTIME -> REALTIME_PRIO_BASE_VAL
                          [] priority = INTERACTIVE -> INTERACTIVE_PRIO_BASE_VAL
                          [] priority = NORMAL -> NORMAL_PRIO_BASE_VAL
                          [] OTHER -> DAEMON_PRIO_BASE_VAL,
     _priority_delta |-> CASE priority = REALTIME -> REALTIME_PRIO_DELTA
                           [] priority = INTERACTIVE -> INTERACTIVE_PRIO_DELTA
                           [] priority = NORMAL -> NORMAL_PRIO_DELTA
                           [] OTHER -> DAEMON_PRIO_DELTA]

\* RunqueueEntry(NULL), the initial value of firsts[i]; an entry is compared
\* with NULL by its entity (operator==). Its other fields are never read.
NullEntry == [entity |-> NULL, priority_value |-> 0, _priority_delta |-> 0]

\* RunqueueEntry::decrement (uint8_t, bounded at 0).
decrement(entry) ==
    IF entry._priority_delta >= entry.priority_value
    THEN [entry EXCEPT !.priority_value = 0]
    ELSE [entry EXCEPT !.priority_value = (entry.priority_value - entry._priority_delta) % 256]

\* RunqueueEntry::increment (uint8_t, bounded at UINT8_MAX).
increment_wrapping(entry) ==
    [entry EXCEPT !.priority_value = (entry.priority_value + entry._priority_delta) % 256]

increment(entry) ==
    IF UINT8_MAX - entry.priority_value <= entry._priority_delta
    THEN [entry EXCEPT !.priority_value = UINT8_MAX]
    ELSE [entry EXCEPT !.priority_value = (entry.priority_value + entry._priority_delta) % 256]

\* ------------------------- sched-adv.cpp: MultiQueuePriorityValueScheduler
\* The scheduler object: runqueues[level] is a List<RunqueueEntry> (front
\* first); _last_entity_ptr has no initialiser.
AdvWith(last_entity_ptr) ==
    [runqueues |-> [i \in Levels |-> <<>>], _last_entity_ptr |-> last_entity_ptr]

AdvNew == AdvWith(NULL)

\* add_to_runqueue: List::push puts the new entry at the front.
add_to_runqueue(a, entity, priority) ==
    [a EXCEPT !.runqueues[priority] = <<RunqueueEntry(entity, priority)>> \o @]

\* remove_from_runqueue: the entry of the entity is looked up and taken out
\* of the list; ok: the assertion that there is one held.
remove_from_runqueue(a, entity, priority) ==
    [adv |-> [a EXCEPT !.runqueues[priority] = SelectSeq(@, LAMBDA x : x.entity # entity)],
     ok |-> \E k \in 1..Len(a.runqueues[priority]) : a.runqueues[priority][k].entity = entity]

\* The first for loop of pick_next_entity on one runqueue: the list after
\* the pop/enqueue (or increment/append/pop/enqueue) and the entry copied to
\* firsts[i]; first stays RunqueueEntry(NULL) for an empty runqueue.
pick_rotate(rq, last_entity_ptr) ==
    IF Len(rq) = 0
    THEN [rq |-> rq, first |-> NullEntry]
    ELSE LET top_entry == Head(rq)
         IN  IF top_entry.entity # last_entity_ptr
             THEN [rq |-> Tail(rq) \o <<top_entry>>, first |-> top_entry]
             ELSE LET again == increment(top_entry)
                      appended == Tail(rq) \o <<again>>
                  IN  [rq |-> Tail(appended) \o <<again>>, first |-> Head(appended)]

\* The second for loop: the first entry of firsts, in level order, that no
\* other entry undercuts (the comparison is a strict <); 0 if all are NULL.
pick_min(firsts) ==
    LET have == {i \in Levels : firsts[i].entity # NULL}
    IN  IF have = {} THEN 0
        ELSE CHOOSE i \in have :
                 /\ \A j \in have : firsts[i].priority_value <= firsts[j].priority_value
                 /\ \A j \in have : j < i => firsts[j].priority_value > firsts[i].priority_value

\* The third for loop decrements the entries of firsts other than the
\* scheduled one: firsts holds copies of the runqueue entries, so the values
\* stored in the runqueues stay as they are. The result is the copies.
pick_decrement(firsts, scheduled) ==
    [i \in Levels |-> IF firsts[i].entity # NULL /\ i # scheduled THEN decrement(firsts[i])
                      ELSE firsts[i]]

\* The assertions on increment and decrement: a value that is not at its
\* bound changes.
pick_asserts(rq, last_entity_ptr, firsts, scheduled) ==
    /\ \A i \in Levels :
           (Len(rq[i]) > 0 /\ Head(rq[i]).entity = last_entity_ptr) =>
               \/ Head(rq[i]).priority_value = UINT8_MAX
               \/ Head(rq[i]).priority_value # increment(Head(rq[i])).priority_value
    /\ \A i \in Levels :
           (scheduled # 0 /\ firsts[i].entity # NULL /\ i # scheduled) =>
               \/ firsts[i].priority_value = 0
               \/ firsts[i].priority_value # pick_decrement(firsts, scheduled)[i].priority_value

\* pick_next_entity: the scheduler after the call, the entity returned and
\* whether every assertion held.
pick_next_entity(a) ==
    LET rotated == [i \in Levels |-> pick_rotate(a.runqueues[i], a._last_entity_ptr)]
        firsts == [i \in Levels |-> rotated[i].first]
        scheduled == pick_min(firsts)
        rqs == [i \in Levels |-> rotated[i].rq]
        ok == pick_asserts(a.runqueues, a._last_entity_ptr, firsts, scheduled)
    IN  IF scheduled = 0
        THEN [adv |-> [a EXCEPT !.runqueues = rqs], res |-> NULL, ok |-> ok]
        ELSE [adv |-> [a EXCEPT !.runqueues = rqs,
                                !._last_entity_ptr = firsts[scheduled].entity],
              res |-> firsts[scheduled].entity, ok |-> ok]

\* ---------------------------- sched-mq.cpp: MultipleQueuePriorityScheduler
\* #define TIME_QUANTUM SchedulingEntity::EntityRuntime(5000000), in ns.
TIME_QUANTUM == 5000000

\* The SchedulingEntity objects: entity e with priority() = prio[e] and no
\* CPU time used yet.
\* CPU time an entity uses in one step of running: half a time quantum.
RuntimeTick == TIME_QUANTUM \div 2

\* The CPU time used by the entities 1..e together.
RECURSIVE CpuTimeUpTo(_, _)
CpuTimeUpTo(ents, e) == IF e = 0 THEN 0 ELSE ents[e].cpu_runtime + CpuTimeUpTo(ents, e - 1)

EntitiesAt(prio) == [e \in Entities |-> [priority |-> prio[e], cpu_runtime |-> 0]]

EntitiesNew == EntitiesAt([e \in Entities |-> NORMAL])

\* The scheduler object: runqueues[level] is a List<SchedulingEntity*> (front
\* first), last_entity_ptr = nullptr; last_entity_runtime_limit has no
\* initialiser and is written before it is first read.
MqNew ==
    [runqueues |-> [i \in Levels |-> <<>>], last_entity_ptr |-> NULL,
     last_entity_runtime_limit |-> 0]

\* add_to_runqueue: the switch on entity.priority() and List::push (front).
mq_add_to_runqueue(m, entity, priority) ==
    [m EXCEPT !.runqueues[priority] = <<entity>> \o @]

\* remove_from_runqueue: List::remove takes the entity out of the list.
mq_remove_from_runqueue(m, entity, priority) ==
    [m EXCEPT !.runqueues[priority] = SelectSeq(@, LAMBDA x : x # entity)]

\* for (RunQueue& rq : runqueues): the first runqueue, from index 0 up, that
\* is not skipped by `if (rq.count() == 0) continue`; 0 if all are empty.
mq_scan_from_lowest(rqs) ==
    LET have == {i \in Levels : Len(rqs[i]) # 0}
    IN  IF have = {} THEN 0 ELSE CHOOSE i \in have : \A j \in have : j <= i

mq_scan(rqs) ==
    LET have == {i \in Levels : Len(rqs[i]) # 0}
    IN  IF have = {} THEN 0 ELSE CHOOSE i \in have : \A j \in have : i <= j

\* last_entity_runtime_limit = top_entity->cpu_runtime() + time_quantum
mq_runtime_limit_short(cpu_runtime) == cpu_runtime + RuntimeTick

mq_runtime_limit(cpu_runtime) == cpu_runtime + TIME_QUANTUM

\* pick_next_entity: the scheduler after the call and the entity returned.
\* ents holds the entities' cpu_runtime() at the time of the call.
mq_pick_next_entity(m, ents) ==
    LET i == mq_scan(m.runqueues)
    IN  IF i = 0
        THEN [mq |-> m, res |-> NULL]
        ELSE
        LET rq == m.runqueues[i]
            top_entity == Head(rq)
        IN  IF Len(rq) = 1
            THEN [mq |-> m, res |-> top_entity]
            ELSE IF /\ top_entity = m.last_entity_ptr
                    /\ ents[top_entity].cpu_runtime < m.last_entity_runtime_limit
            THEN [mq |-> m, res |-> top_entity]
            ELSE
            LET rotated == Tail(rq) \o <<Head(rq)>>
                next_entity == Head(rotated)
            IN  [mq |-> [m EXCEPT !.runqueues[i] = rotated,
                                  !.last_entity_ptr = next_entity,
                                  !.last_entity_runtime_limit =
                                      mq_runtime_limit(ents[next_entity].cpu_runtime)],
                 res |-> next_entity]

\* ---------------------------------------------------------------- actions
Pages == 0..(_pgds_len - 1)

Range(start, count) == start..(start + count - 1)

\* The pages with the given holder in the bookkeeping of the calls.
Held(who) == {p \in Pages : owner[p] = who}

\* Orders a caller asks for: every order a block of the table can have,
\* (a larger order finds every list empty, as the largest of these can).
ReqOrders == 0..__log2ceil(MaxPgds)

NullReads == {"fault", "declined"}

Store(s) ==
    /\ _pgds_len' = s.len
    /\ type' = s.type
    /\ prev_free' = s.prev_free
    /\ next_free' = s.next_free
    /\ _free_areas' = s._free_areas
    /\ halt' = s.halt

Call(op, a, b, res) == [op |-> op, a |-> a, b |-> b, res |-> res]

\* Interrupts are enabled and no UniqueIRQLock has been constructed:
\* enabled is the CPU's interrupt flag, saved the flag as the lock object's
\* constructor found it, acquired and released count the constructor and
\* destructor runs of the call in progress.
IrqNew == [enabled |-> TRUE, saved |-> TRUE, acquired |-> 0, released |-> 0]

\* Execution contexts (cores, interrupt handlers) that call the allocator.
Contexts == {1, 2}

NoCall == [pc |-> "idle", order |-> 0, allocated |-> NULL, res |-> NULL]

\* init() refuses a table whose first descriptor is not frame 0.
init_fails_never(first_pfn) == FALSE

init_fails(first_pfn) == first_pfn # 0

FirstPfns == 0..MaxFirstPfn

\* The state after init(table, len) on a table whose first frame is first_pfn;
\* after a failed init the allocator is not put in service.
StartedAt(len, first_pfn) ==
    /\ _pgds_len = len
    /\ type = init(len).type
    /\ prev_free = init(len).prev_free
    /\ next_free = init(len).next_free
    /\ _free_areas = init(len)._free_areas
    /\ halt = IF init_fails(first_pfn) THEN "init" ELSE "run"
    /\ owner = [p \in 0..(len - 1) |-> "none"]
    /\ allocs = {}
    /\ last = Call("init", first_pfn, len, NULL)
    /\ ctx = [c \in Contexts |-> NoCall]
    /\ adv = AdvNew
    /\ mq = MqNew
    /\ entities = EntitiesNew
    /\ irq = IrqNew

\* The state after a successful init(table, len).
Started(len) == StartedAt(len, 0)

Init == \E len \in {MaxPgds - 1, MaxPgds}, first_pfn \in FirstPfns : StartedAt(len, first_pfn)

\* The call insert_range(start, count) and its bookkeeping.
InsertCall(start, count) ==
    /\ halt = "run"
    /\ start + count <= _pgds_len
    /\ \A p \in Range(start, count) : owner[p] \in {"none", "resv"}
    /\ Store(insert_page_range(Cur, start, count))
    /\ owner' = [p \in Pages |-> IF p \in Range(start, count) THEN "free" ELSE owner[p]]
    /\ allocs' = allocs
    /\ last' = Call("insert", start, count, NULL)
    /\ UNCHANGED <<ctx, adv, mq, entities, irq>>

\* The call allocate(order).
AllocateCall(order) ==
    /\ halt = "run"
    /\ LET return(r, done) ==
               /\ Store(r.s)
               /\ owner' = IF done
                           THEN [p \in Pages |-> IF p \in Range(r.res, __two_pow(order))
                                                 THEN "alloc" ELSE owner[p]]
                           ELSE owner
               /\ allocs' = IF done THEN allocs \cup {<<r.res, order>>} ELSE allocs
               /\ last' = Call("allocate", order, 0, r.res)
               /\ UNCHANGED <<ctx, adv, mq, entities, irq>>
           returned(r) == return(r, r.s.halt = "run" /\ r.res # NULL)
       IN  returned(allocate_pages(Cur, order))

\* The call free(pgd, order).
FreeCall(pgd, order, null_read) ==
    /\ halt = "run"
    /\ LET return(s, done) ==
               /\ Store(s)
               /\ owner' = IF done
                           THEN [p \in Pages |-> IF p \in Range(pgd, __two_pow(order))
                                                 THEN "free" ELSE owner[p]]
                           ELSE owner
               /\ allocs' = IF done THEN allocs \ {<<pgd, order>>} ELSE allocs
               /\ last' = Call("free", pgd, order, NULL)
               /\ UNCHANGED <<ctx, adv, mq, entities, irq>>
           returned(s) == return(s, s.halt = "run")
       IN  returned(free_pages(Cur, pgd, order, null_read))

\* The call remove_range(start, count).
RemoveCall(start, count) ==
    /\ halt = "run"
    /\ start + count <= _pgds_len
    /\ \A p \in Range(start, count) : owner[p] = "free"
    /\ LET return(s, done) ==
               /\ Store(s)
               /\ owner' = IF done
                           THEN [p \in Pages |-> IF p \in Range(start, count) THEN "resv" ELSE owner[p]]
                           ELSE owner
               /\ allocs' = allocs
               /\ last' = Call("remove", start, count, NULL)
               /\ UNCHANGED <<ctx, adv, mq, entities, irq>>
           returned(s) == return(s, s.halt = "run")
       IN  returned(remove_page_range(Cur, start, count))

\* The call dump_state().
DumpCall ==
    /\ halt = "run"
    /\ Store(dump_state(Cur))
    /\ last' = Call("dump", 0, 0, NULL)
    /\ UNCHANGED <<owner, allocs, ctx, adv, mq, entities, irq>>

\* insert_range(start, count) of pages the allocator does not manage; the
\* empty range (count = 0) is inserted at the table's base only.
Insert ==
    \E start \in Pages, count \in 0.._pgds_len :
        /\ count = 0 => start = 0
        /\ InsertCall(start, count)

\* allocate(order)
Allocate == \E order \in ReqOrders : AllocateCall(order)

\* free(block, order) of an outstanding allocation, with its order.
Free == \E al \in allocs, null_read \in NullReads : FreeCall(al[1], al[2], null_read)

\* remove_range(start, count) of pages that are all free.
Remove == \E start \in Pages, count \in 1.._pgds_len : RemoveCall(start, count)

\* dump_state()
Dump == DumpCall

Next == Insert \/ Allocate \/ Free \/ Remove \/ Dump

Spec == Init /\ [][Next]_vars

\* ------------------------------------------------- scenario specification
\* The scenarios of the testable properties on larger tables: one
\* insert_range of an order-aligned range of 2^k pages into the empty index,
\* then either consecutive allocate calls of one order or one remove_range;
\* once every inserted page is allocated, the allocations are freed one by
\* one in any order.
InitScen == \E len \in {MaxScenPgds - 1, MaxScenPgds} : Started(len)

ScenOrders == 0..__log2ceil(MaxScenPgds)

ScenInsert ==
    /\ last.op = "init"
    /\ \E k \in ScenOrders, start \in Pages :
           /\ __aligned_by_order(start, k)
           /\ InsertCall(start, __two_pow(k))

ScenAllocate ==
    /\ last.op \in {"insert", "allocate"}
    /\ \E order \in ScenOrders :
           /\ last.op = "allocate" => order = last.a
           /\ AllocateCall(order)

ScenRemove ==
    /\ last.op = "insert"
    /\ \E start \in Pages, count \in 1.._pgds_len : RemoveCall(start, count)

ScenFree ==
    /\ last.op = "free" \/ (last.op = "allocate" /\ Held("free") = {})
    /\ \E al \in allocs, null_read \in NullReads : FreeCall(al[1], al[2], null_read)

NextScen == ScenInsert \/ ScenAllocate \/ ScenRemove \/ ScenFree

SpecScen == InitScen /\ [][NextScen]_vars

\* ----------------------------------------------- concurrent specification
\* Two execution contexts call allocate_pages at the same time. The code
\* takes no lock and masks no interrupt, so the statements of the two calls
\* interleave; a step is named after the source line it starts at. The
\* table starts as one insert_range leaves it.
InitConc ==
    \E len \in {MaxPgds - 1, MaxPgds} :
        \E start \in 0..(len - 1), count \in 1..len :
            /\ start + count <= len
            /\ LET s == insert_page_range(init(len), start, count)
               IN  /\ _pgds_len = len
                   /\ type = s.type
                   /\ prev_free = s.prev_free
                   /\ next_free = s.next_free
                   /\ _free_areas = s._free_areas
                   /\ halt = s.halt
            /\ owner = [p \in 0..(len - 1) |->
                           IF p \in Range(start, count) THEN "free" ELSE "none"]
            /\ allocs = {}
            /\ last = Call("insert", start, count, NULL)
            /\ ctx = [c \in Contexts |-> NoCall]
            /\ adv = AdvNew
            /\ mq = MqNew
            /\ entities = EntitiesNew
            /\ irq = IrqNew

Goto(c, label) == ctx' = [ctx EXCEPT ![c].pc = label]

\* Context c enters allocate_pages(order).
ConcCall(c) ==
    /\ halt = "run"
    /\ ctx[c].pc = "idle"
    /\ \E order \in ReqOrders : ctx' = [ctx EXCEPT ![c].pc = "l473", ![c].order = order]
    /\ UNCHANGED <<_pgds_len, type, prev_free, next_free, _free_areas, halt, owner, allocs, last, adv, mq, entities, irq>>

\* Lines 473-475: test the head of the list and take it as the block.
ConcL473(c) ==
    /\ halt = "run"
    /\ ctx[c].pc = "l473"
    /\ IF _free_areas[ctx[c].order] # NULL
       THEN ctx' = [ctx EXCEPT ![c].pc = "l478", ![c].allocated = _free_areas[ctx[c].order]]
       ELSE Goto(c, "l520")
    /\ UNCHANGED <<_pgds_len, type, prev_free, next_free, _free_areas, halt, owner, allocs, last, adv, mq, entities, irq>>

\* Lines 478-481: mark the block's pages.
ConcL478(c) ==
    /\ halt = "run"
    /\ ctx[c].pc = "l478"
    /\ LET allocated == ctx[c].allocated
           lim == allocated + __two_pow(ctx[c].order)
       IN  IF lim > _pgds_len
           THEN Store(Halt(Cur, "ub")) /\ UNCHANGED ctx
           ELSE /\ Store([Cur EXCEPT !.type = [p \in Pages |->
                             IF allocated <= p /\ p < lim THEN AVAILABLE ELSE type[p]]])
                /\ Goto(c, "l484")
    /\ UNCHANGED <<owner, allocs, last, adv, mq, entities, irq>>

\* Lines 484-486: the assertion on the head and the unlinking.
ConcL484(c) ==
    /\ halt = "run"
    /\ ctx[c].pc = "l484"
    /\ IF prev_free[ctx[c].allocated] # NULL
       THEN Store(Halt(Cur, "assert")) /\ UNCHANGED ctx
       ELSE Store(alloc_unlink(Cur, ctx[c].allocated, ctx[c].order)) /\ Goto(c, "l496")
    /\ UNCHANGED <<owner, allocs, last, adv, mq, entities, irq>>

\* Lines 496-517: the buddy bookmark and the return of the block.
ConcL496(c) ==
    /\ halt = "run"
    /\ ctx[c].pc = "l496"
    /\ LET allocated == ctx[c].allocated
           order == ctx[c].order
           allocated_buddy == buddy_of(Cur, allocated, order)
       IN  IF \/ buddy_of_asserts(allocated, order)
              \/ ~__in_ptr_bound(allocated_buddy, _pgds_len)
              \/ allocated_buddy = allocated
           THEN Store(Halt(Cur, "assert")) /\ UNCHANGED <<ctx, allocs, last>>
           ELSE /\ Store(IF allocated_buddy < allocated
                         THEN SetNext(SetPrev(Cur, allocated, allocated_buddy), allocated, NULL)
                         ELSE SetNext(SetPrev(Cur, allocated, NULL), allocated, allocated_buddy))
                /\ ctx' = [ctx EXCEPT ![c].pc = "done", ![c].res = allocated]
                /\ allocs' = allocs \cup {<<allocated, order>>}
                /\ last' = Call("allocate", order, 0, allocated)
    /\ owner' = IF halt' = "run"
                THEN [p \in Pages |-> IF p \in Range(ctx[c].allocated, __two_pow(ctx[c].order))
                                      THEN "alloc" ELSE owner[p]]
                ELSE owner
    /\ UNCHANGED <<adv, mq, entities, irq>>

\* Lines 520-549: find a larger block; return NULL if there is none, else
\* split it and start over (the recursive call).
ConcL520(c) ==
    /\ halt = "run"
    /\ ctx[c].pc = "l520"
    /\ LET order == ctx[c].order
           larger == {o \in (order + 1)..MAX_ORDER : _free_areas[o] # NULL}
       IN  IF larger = {}
           THEN /\ ctx' = [ctx EXCEPT ![c].pc = "done", ![c].res = NULL]
                /\ last' = Call("allocate", order, 0, NULL)
                /\ UNCHANGED <<_pgds_len, type, prev_free, next_free, _free_areas, halt>>
           ELSE LET from_order == CHOOSE o \in larger : \A o2 \in larger : o <= o2
                    s1 == split_block(Cur, _free_areas[from_order], from_order)
                IN  /\ Store(s1)
                    /\ IF s1.halt = "run" THEN Goto(c, "l473") ELSE UNCHANGED ctx
                    /\ UNCHANGED last
    /\ UNCHANGED <<owner, allocs, adv, mq, entities, irq>>

NextConc ==
    \E c \in Contexts :
        ConcCall(c) \/ ConcL473(c) \/ ConcL478(c) \/ ConcL484(c) \/ ConcL496(c) \/ ConcL520(c)

SpecConc == InitConc /\ [][NextConc]_vars

\* ------------------------------------------ priority-value scheduler spec
\* The scheduler with a fixed population of runnable entities: each entity
\* is absent or was added at one level (in order of its number), and
\* pick_next_entity is called over and over. firsts[] is initialised from
\* NULL through RunqueueEntry(SchedulingEntity*), which reads the priority of
\* a null entity: either that read faults or the call carries on.
AbsentOrLevel == {0} \cup Levels

RECURSIVE AdvPopulated(_, _, _)
AdvPopulated(a, prio, e) ==
    IF e > MaxEntities THEN a
    ELSE AdvPopulated(IF prio[e] = 0 THEN a ELSE add_to_runqueue(a, e, prio[e]), prio, e + 1)

InitAdv ==
    /\ _pgds_len = MaxPgds
    /\ type = init(MaxPgds).type
    /\ prev_free = init(MaxPgds).prev_free
    /\ next_free = init(MaxPgds).next_free
    /\ _free_areas = init(MaxPgds)._free_areas
    /\ halt = "run"
    /\ owner = [p \in 0..(MaxPgds - 1) |-> "none"]
    /\ allocs = {}
    /\ last = Call("init", 0, MaxPgds, NULL)
    /\ ctx = [c \in Contexts |-> NoCall]
    /\ \E prio \in [Entities -> AbsentOrLevel], last_entity_ptr \in Entities \cup {NULL} :
           adv = AdvPopulated(AdvWith(last_entity_ptr), prio, 1)
    /\ mq = MqNew
    /\ entities = EntitiesNew
    /\ irq = IrqNew

AdvPick ==
    /\ halt = "run"
    /\ LET returned(r) ==
               /\ adv' = r.adv
               /\ halt' = IF r.ok THEN "run" ELSE "assert"
               /\ last' = Call("pick", 0, 0, IF r.ok THEN r.res ELSE NULL)
       IN  returned(pick_next_entity(adv))
    /\ UNCHANGED <<_pgds_len, type, prev_free, next_free, _free_areas, owner, allocs, ctx,
                   mq, entities, irq>>

AdvPickFaults ==
    /\ halt = "run"
    /\ halt' = "fault"
    /\ last' = Call("pick", 0, 0, NULL)
    /\ UNCHANGED <<_pgds_len, type, prev_free, next_free, _free_areas, owner, allocs, ctx, adv, mq, entities, irq>>

NextAdv == AdvPick \/ AdvPickFaults

SpecAdv == InitAdv /\ [][NextAdv]_vars /\ WF_vars(AdvPick)

\* ------------------------------------------------- buddy_of specification
\* buddy_of applied to every descriptor and order, on tables of every length
\* up to MaxScenPgds, empty or as one insert_range leaves them. A call on a
\* block that is not aligned by the order stops on the assertion of
\* __prev_block_ptr/__next_block_ptr.
InitBuddy == \E len \in 1..MaxScenPgds : Started(len)

BuddyInsert ==
    /\ last.op = "init"
    /\ \E start \in Pages, count \in 1.._pgds_len : InsertCall(start, count)

BuddyOf ==
    /\ halt = "run"
    /\ \E pgd \in Pages, order \in ScenOrders :
           /\ Store(IF buddy_of_asserts(pgd, order) THEN Halt(Cur, "assert") ELSE Cur)
           /\ last' = Call("buddy_of", pgd, order,
                           IF buddy_of_asserts(pgd, order) THEN NULL
                           ELSE buddy_of(Cur, pgd, order))
    /\ UNCHANGED <<owner, allocs, ctx, adv, mq, entities, irq>>

NextBuddy == BuddyInsert \/ BuddyOf

SpecBuddy == InitBuddy /\ [][NextBuddy]_vars

\* ------------------------------------------- insert_page_range alone
\* Tables that have only seen insert_page_range, on pairwise disjoint ranges
\* (InsertCall refuses a range that holds a page already inserted).
InitIns == \E len \in 1..(MaxPgds + 2) : Started(len)

InsInsert == \E start \in Pages, count \in 1.._pgds_len : InsertCall(start, count)

NextIns == InsInsert

SpecIns == InitIns /\ [][NextIns]_vars

\* ------------------------------------------ multiple-queue scheduler spec
\* The scheduler core drives the mq scheduler: entities of fixed priority
\* become runnable (add_to_runqueue) and stop being runnable
\* (remove_from_runqueue), pick_next_entity chooses the entity to run, and
\* the chosen entity uses CPU time. last.res keeps the entity that the last
\* pick_next_entity returned.
InitMq ==
    /\ _pgds_len = MaxPgds
    /\ type = init(MaxPgds).type
    /\ prev_free = init(MaxPgds).prev_free
    /\ next_free = init(MaxPgds).next_free
    /\ _free_areas = init(MaxPgds)._free_areas
    /\ halt = "run"
    /\ owner = [p \in 0..(MaxPgds - 1) |-> "none"]
    /\ allocs = {}
    /\ last = Call("init", 0, MaxPgds, NULL)
    /\ ctx = [c \in Contexts |-> NoCall]
    /\ adv = AdvNew
    /\ mq = MqNew
    /\ \E prio \in [Entities -> Levels] : entities = EntitiesAt(prio)
    /\ irq = IrqNew

\* The entities in runqueue i.
MqRunnable(i) == {mq.runqueues[i][k] : k \in 1..Len(mq.runqueues[i])}

MqQueued(e) == \E i \in Levels : e \in MqRunnable(i)

MqAdd ==
    \E e \in Entities :
        /\ ~MqQueued(e)
        /\ mq' = mq_add_to_runqueue(mq, e, entities[e].priority)
        /\ last' = Call("mq_add", e, 0, last.res)
        /\ UNCHANGED <<_pgds_len, type, prev_free, next_free, _free_areas, halt, owner, allocs,
                       ctx, adv, entities, irq>>

MqRemove ==
    \E e \in Entities :
        /\ MqQueued(e)
        /\ mq' = mq_remove_from_runqueue(mq, e, entities[e].priority)
        /\ last' = Call("mq_remove", e, 0, last.res)
        /\ UNCHANGED <<_pgds_len, type, prev_free, next_free, _free_areas, halt, owner, allocs,
                       ctx, adv, entities, irq>>

\* The call is recorded with what a caller sees of it: the entity returned,
\* in a the cpu_runtime() that entity had when the calls began to return it
\* (a run of calls ends with a call that returns another entity or with an
\* add_to_runqueue or remove_from_runqueue), and in b whether the run began
\* right after a call that returned another entity (1) or not (0).
MqPick ==
    /\ LET returned(r) ==
               /\ mq' = r.mq
               /\ last' =
                      IF r.res = NULL THEN Call("mq_pick", 0, 0, NULL)
                      ELSE IF last.op = "mq_pick" /\ last.res = r.res
                      THEN Call("mq_pick", last.a, last.b, r.res)
                      ELSE Call("mq_pick", entities[r.res].cpu_runtime,
                                IF last.op = "mq_pick" /\ last.res # NULL THEN 1 ELSE 0,
                                r.res)
       IN  returned(mq_pick_next_entity(mq, entities))
    /\ UNCHANGED <<_pgds_len, type, prev_free, next_free, _free_areas, halt, owner, allocs,
                   ctx, adv, entities, irq>>

\* The entity chosen by the last pick_next_entity runs for RuntimeTick ns.
MqRun ==
    /\ last.op \in {"mq_pick", "mq_add", "mq_remove"}
    /\ last.res # NULL
    /\ MqQueued(last.res)
    /\ CpuTimeUpTo(entities, MaxEntities) + RuntimeTick <= MaxTicks * RuntimeTick
    /\ entities' = [entities EXCEPT ![last.res].cpu_runtime = @ + RuntimeTick]
    /\ UNCHANGED <<_pgds_len, type, prev_free, next_free, _free_areas, halt, owner, allocs,
                   last, ctx, adv, mq, irq>>

NextMq == MqAdd \/ MqRemove \/ MqPick \/ MqRun

SpecMq == InitMq /\ [][NextMq]_vars

\* ------------------------------------------------- IRQ lock specification
\* add_to_runqueue and remove_from_runqueue of both schedulers, statement by
\* statement, with the timer interrupt that calls pick_next_entity whenever
\* interrupts are enabled. UniqueIRQLock's constructor saves the interrupt
\* flag and disables interrupts; its destructor restores the saved flag.
irq_lock(q) == [q EXCEPT !.saved = q.enabled, !.enabled = FALSE, !.acquired = @ + 1]

irq_unlock(q, saved) ==
    [q EXCEPT !.enabled = IF saved THEN TRUE ELSE q.enabled, !.released = @ + 1]

\* The call that context 1 is running.
LockCtx(pc, sched, op, entity) == [pc |-> pc, sched |-> sched, op |-> op, entity |-> entity]

Schedulers == {"mq", "adv"}

LockQueued(sched, e) ==
    IF sched = "mq" THEN MqQueued(e)
    ELSE \E i \in Levels : \E k \in 1..Len(adv.runqueues[i]) : adv.runqueues[i][k].entity = e

InitLock ==
    /\ _pgds_len = MaxPgds
    /\ type = init(MaxPgds).type
    /\ prev_free = init(MaxPgds).prev_free
    /\ next_free = init(MaxPgds).next_free
    /\ _free_areas = init(MaxPgds)._free_areas
    /\ halt = "run"
    /\ owner = [p \in 0..(MaxPgds - 1) |-> "none"]
    /\ allocs = {}
    /\ last = Call("init", 0, MaxPgds, NULL)
    /\ \E sched \in Schedulers : ctx = [c \in Contexts |-> LockCtx("idle", sched, "none", NULL)]
    /\ adv = AdvNew
    /\ mq = MqNew
    /\ \E prio \in [Entities -> Levels] : entities = EntitiesAt(prio)
    /\ \E enabled \in BOOLEAN : irq = [IrqNew EXCEPT !.enabled = enabled, !.saved = enabled]

\* A thread calls add_to_runqueue(entity) or remove_from_runqueue(entity).
LockCall ==
    /\ halt = "run"
    /\ ctx[1].pc \in {"idle", "done"}
    /\ \E op \in {"add", "remove"}, e \in Entities :
           /\ op = "add" <=> ~LockQueued(ctx[1].sched, e)
           /\ ctx' = [ctx EXCEPT ![1] = LockCtx("lock", ctx[1].sched, op, e)]
    /\ irq' = [irq EXCEPT !.acquired = 0, !.released = 0]
    /\ UNCHANGED <<_pgds_len, type, prev_free, next_free, _free_areas, halt, owner, allocs,
                   last, adv, mq, entities>>

\* sched-mq.cpp 54, 78: `UniqueIRQLock lock = UniqueIRQLock();` constructs the
\* lock object of the function body. sched-adv.cpp 150, 173:
\* `UniqueIRQLock();` constructs a temporary, which is destroyed at the end of
\* the statement.
LockConstruct ==
    /\ halt = "run"
    /\ ctx[1].pc = "lock"
    /\ irq' = IF ctx[1].sched = "mq" THEN irq_lock(irq)
              ELSE irq_unlock(irq_lock(irq), irq_lock(irq).saved)
    /\ ctx' = [ctx EXCEPT ![1].pc = "access"]
    /\ UNCHANGED <<_pgds_len, type, prev_free, next_free, _free_areas, halt, owner, allocs,
                   last, adv, mq, entities>>

\* The list operation (push, remove) starts to relink the runqueue.
LockAccess ==
    /\ halt = "run"
    /\ ctx[1].pc = "access"
    /\ ctx' = [ctx EXCEPT ![1].pc = "update"]
    /\ UNCHANGED <<_pgds_len, type, prev_free, next_free, _free_areas, halt, owner, allocs,
                   last, adv, mq, entities, irq>>

\* The list operation completes. In sched-adv.cpp the function returns.
LockUpdate ==
    /\ ctx[1].pc = "update"
    /\ LET e == ctx[1].entity
           priority == entities[e].priority
           removed == remove_from_runqueue(adv, e, priority)
       IN  IF ctx[1].sched = "mq"
           THEN /\ mq' = IF ctx[1].op = "add" THEN mq_add_to_runqueue(mq, e, priority)
                         ELSE mq_remove_from_runqueue(mq, e, priority)
                /\ ctx' = [ctx EXCEPT ![1].pc = "release"]
                /\ UNCHANGED <<adv, halt>>
           ELSE /\ adv' = IF ctx[1].op = "add" THEN add_to_runqueue(adv, e, priority)
                          ELSE removed.adv
                /\ halt' = IF ctx[1].op = "remove" /\ ~removed.ok THEN "assert" ELSE halt
                /\ ctx' = [ctx EXCEPT ![1].pc = "done"]
                /\ UNCHANGED mq
    /\ halt = "run"
    /\ last' = Call(ctx[1].op, ctx[1].entity, 0, NULL)
    /\ UNCHANGED <<_pgds_len, type, prev_free, next_free, _free_areas, owner, allocs,
                   entities, irq>>

\* sched-mq.cpp 69, 93: `lock.~UniqueIRQLock();`
LockDestroy ==
    /\ halt = "run"
    /\ ctx[1].pc = "release"
    /\ irq' = irq_unlock(irq, irq.saved)
    /\ ctx' = [ctx EXCEPT ![1].pc = "exit"]
    /\ UNCHANGED <<_pgds_len, type, prev_free, next_free, _free_areas, halt, owner, allocs,
                   last, adv, mq, entities>>

\* sched-mq.cpp 70, 94: at the closing brace the destructor of `lock` runs
\* again, on an object whose lifetime has ended; the field it reads may hold
\* either value.
LockScopeExit ==
    /\ halt = "run"
    /\ ctx[1].pc = "exit"
    /\ \E saved \in BOOLEAN : irq' = irq_unlock(irq, saved)
    /\ ctx' = [ctx EXCEPT ![1].pc = "done"]
    /\ UNCHANGED <<_pgds_len, type, prev_free, next_free, _free_areas, halt, owner, allocs,
                   last, adv, mq, entities>>

\* No entry of the adv scheduler has been incremented MaxTicks times.
AdvBelowCap ==
    \A i \in Levels : \A k \in 1..Len(adv.runqueues[i]) :
        adv.runqueues[i][k].priority_value <
            RunqueueEntry(NULL, i).priority_value + MaxTicks * adv.runqueues[i][k]._priority_delta

\* The timer interrupt arrives (interrupts are enabled) and its handler calls
\* pick_next_entity; in a the call record says whether the thread was in the
\* middle of a list operation (1) or not (0). Walking a list that is being
\* relinked is a data race.
IrqPick ==
    /\ halt = "run"
    /\ irq.enabled
    /\ AdvBelowCap
    /\ LET picked_mq == mq_pick_next_entity(mq, entities)
           picked_adv == pick_next_entity(adv)
       IN  IF ctx[1].pc = "update"
           THEN /\ halt' = "ub"
                /\ last' = Call("irq_pick", 1, 0, NULL)
                /\ UNCHANGED <<adv, mq>>
           ELSE IF ctx[1].sched = "mq"
           THEN /\ mq' = picked_mq.mq
                /\ last' = Call("irq_pick", 0, 0, picked_mq.res)
                /\ UNCHANGED <<adv, halt>>
           ELSE /\ adv' = picked_adv.adv
                /\ halt' = IF picked_adv.ok THEN "run" ELSE "assert"
                /\ last' = Call("irq_pick", 0, 0, IF picked_adv.ok THEN picked_adv.res ELSE NULL)
                /\ UNCHANGED mq
    /\ UNCHANGED <<_pgds_len, type, prev_free, next_free, _free_areas, owner, allocs, ctx,
                   entities, irq>>

NextLock ==
    LockCall \/ LockConstruct \/ LockAccess \/ LockUpdate \/ LockDestroy \/ LockScopeExit
        \/ IrqPick

SpecLock == InitLock /\ [][NextLock]_vars

\* ------------------------------------------- RunqueueEntry specification
\* One RunqueueEntry with any 8-bit priority_value and the _priority_delta of
\* any of the four levels, on which increment() and decrement() are called.
\* A call is recorded with the value before it (a), the delta (b) and the
\* value returned (res).
EntryOf(value, delta) == [entity |-> NULL, priority_value |-> value, _priority_delta |-> delta]

InitEntry ==
    /\ _pgds_len = MaxPgds
    /\ type = init(MaxPgds).type
    /\ prev_free = init(MaxPgds).prev_free
    /\ next_free = init(MaxPgds).next_free
    /\ _free_areas = init(MaxPgds)._free_areas
    /\ halt = "run"
    /\ owner = [p \in 0..(MaxPgds - 1) |-> "none"]
    /\ allocs = {}
    /\ ctx = [c \in Contexts |-> NoCall]
    /\ adv = AdvNew
    /\ mq = MqNew
    /\ entities = EntitiesNew
    /\ irq = IrqNew
    /\ \E value \in 0..UINT8_MAX, i \in Levels :
           last = Call("entry", value, RunqueueEntry(NULL, i)._priority_delta, value)

EntryIncrement ==
    /\ last' = Call("increment", last.res, last.b,
                    increment(EntryOf(last.res, last.b)).priority_value)
    /\ UNCHANGED <<_pgds_len, type, prev_free, next_free, _free_areas, halt, owner, allocs,
                   ctx, adv, mq, entities, irq>>

EntryDecrement ==
    /\ last' = Call("decrement", last.res, last.b,
                    decrement(EntryOf(last.res, last.b)).priority_value)
    /\ UNCHANGED <<_pgds_len, type, prev_free, next_free, _free_areas, halt, owner, allocs,
                   ctx, adv, mq, entities, irq>>

NextEntry == EntryIncrement \/ EntryDecrement

SpecEntry == InitEntry /\ [][NextEntry]_vars

\* ------------------------------------------------- reading the free lists
\* The order-o free list of the current state.
FreeList(o) == FreeListIn(Cur, o)

Members(o) == {FreeList(o)[i] : i \in 1..Len(FreeList(o))}

\* The free blocks <<first descriptor, order>> over all orders.
FreeBlocks == UNION {{<<b, o>> : b \in Members(o)} : o \in Orders}

Disjoint(x, y) == x[1] + __two_pow(x[2]) <= y[1] \/ y[1] + __two_pow(y[2]) <= x[1]

\* sum over o of count(free_head[o]) * 2^o
RECURSIVE FreePagesFrom(_, _)
FreePagesFrom(s, o) ==
    IF o > MAX_ORDER THEN 0
    ELSE Len(FreeListIn(s, o)) * __two_pow(o) + FreePagesFrom(s, o + 1)

FreePagesIn(s) == FreePagesFrom(s, 0)

FreePages == FreePagesIn(Cur)

\* The number of list entries over all orders.
RECURSIVE LinkCountFrom(_)
LinkCountFrom(o) ==
    IF o > MAX_ORDER THEN 0 ELSE Len(FreeList(o)) + LinkCountFrom(o + 1)

LinkCount == LinkCountFrom(0)

Idle == halt = "run"

\* -------------------------------------------------------------- properties

\* C1: after any sequence of insert_range, allocate, free and remove_range
\* calls, no descriptor is linked twice (in one list or in two orders'
\* lists), no two free blocks share a page, and no outstanding allocation
\* shares a page with a free block or with another outstanding allocation.
C1_Disjoint ==
    Idle =>
        LET fb == FreeBlocks
        IN  /\ LinkCount = Cardinality({x[1] : x \in fb})
            /\ \A x, y \in fb : x # y => Disjoint(x, y)
            /\ \A x, y \in allocs : x # y => Disjoint(x, y)
            /\ \A x \in fb, y \in allocs : Disjoint(x, y)

\* C1 witness: an allocation is outstanding next to free blocks of two
\* different orders, after a block was split and one was freed.
C1_Witness ==
    /\ Idle
    /\ last.op = "free"
    /\ allocs # {}
    /\ \E x, y \in FreeBlocks : x[2] # y[2]

\* C3: the free lists hold exactly the pages inserted and neither allocated
\* nor reserved now.
C3_Conservation ==
    Idle =>
        FreePages = Cardinality(Pages \ Held("none"))
                        - Cardinality(Held("alloc")) - Cardinality(Held("resv"))

\* C3 witness: pages are allocated, reserved and free at the same time.
C3_Witness ==
    /\ Idle
    /\ Held("alloc") # {}
    /\ Held("resv") # {}
    /\ FreePages > 0

\* C4: every block linked in free_head[o] starts at a multiple of 2^o.
C4_Alignment ==
    \A o \in Orders : \A b \in Members(o) : b % __two_pow(o) = 0

\* C4 witness: blocks of order 1 and of order 0 are linked after an insert
\* that did not start at the table's base.
C4_Witness ==
    /\ last.op = "insert"
    /\ last.a # 0
    /\ Members(1) # {}
    /\ Members(0) # {}

\* A free block of order o < MAX_ORDER and its buddy are never both linked
\* in the order-o list.
MaximallyCoalesced ==
    \A o \in 0..(MAX_ORDER - 1) : \A b \in Members(o) :
        buddy_of(Cur, b, o) \notin Members(o)

\* C2: maximal coalescing. A free call that completes leaves no free block
\* whose buddy is free at the same order (stated for a free call made when
\* no such pair was there before it).
C2_MaximalCoalescing ==
    [][(MaximallyCoalesced /\ last'.op = "free" /\ halt' = "run") => MaximallyCoalesced']_vars

\* C6: between calls, a descriptor is linked into free_head[o] iff its state
\* is Available and it starts an aligned block of 2^o pages tracked at o; a
\* descriptor outside every free list is not Available.
C6_LinkedIffAvailable ==
    Idle =>
        \A p \in Pages :
            /\ \A o \in Orders : p \in Members(o) =>
                   /\ type[p] = AVAILABLE
                   /\ __aligned_by_order(p, o)
                   /\ \A q \in Range(p, __two_pow(o)) : q \in Pages /\ owner[q] = "free"
            /\ type[p] = AVAILABLE => \E o \in Orders : p \in Members(o)

\* C10: round trip. Wherever allocate(o) succeeds, free(result, o) right
\* after it completes and restores the total number of free pages.
C10_RoundTrip ==
    Idle =>
        \A o \in ReqOrders, null_read \in NullReads :
            LET r == allocate_pages(Cur, o)
            IN  (r.s.halt = "run" /\ r.res # NULL) =>
                    LET s2 == free_pages(r.s, r.res, o, null_read)
                    IN  /\ s2.halt = "run"
                        /\ FreePagesIn(s2) = FreePagesIn(Cur)

\* C10 witness: after an allocate and a free, a state in which allocate(0)
\* succeeds by splitting a larger block and the free that follows completes.
C10_Witness ==
    /\ Idle
    /\ last.op = "free"
    /\ _free_areas[0] = NULL
    /\ LET r == allocate_pages(Cur, 0)
       IN  /\ r.s.halt = "run"
           /\ r.res # NULL
           /\ free_pages(r.s, r.res, 0, "fault").halt = "run"

\* allocate(order) returns NULL exactly when every list from order up is
\* empty, and then changes nothing.
NullIffEmpty ==
    Idle =>
        \A order \in ScenOrders :
            LET r == allocate_pages(Cur, order)
                empty == \A o \in order..MAX_ORDER : _free_areas[o] = NULL
            IN  /\ (r.s.halt = "run" /\ r.res = NULL) <=> empty
                /\ empty => r.s = Cur

\* C7: allocate(order) returns out of memory iff free_head[o] is empty for
\* every o >= order and then leaves the lists and descriptors unchanged;
\* after insert_range(0,8) the first allocate(3) returns the block at PFN 0
\* and the second allocate(3) returns out of memory.
C7_Exhaustion ==
    /\ []NullIffEmpty
    /\ [][(last = Call("insert", 0, 8, NULL) /\ last'.op = "allocate" /\ last'.a = 3)
            => (halt' = "run" /\ last'.res = 0)]_vars
    /\ [][(last = Call("allocate", 3, 0, 0) /\ allocs = {<<0, 3>>} /\ Held("free") = {}
             /\ last'.op = "allocate" /\ last'.a = 3)
            => (halt' = "run" /\ last'.res = NULL)]_vars

\* The pages handed to insert_range so far.
Inserted == Pages \ Held("none")

\* C8: after insert_range of an order-aligned range of 2^k pages into the
\* empty index, consecutive allocate(0) calls succeed 2^k times and return
\* the pages of the range in ascending order, each once.
C8_FineGrained ==
    (last.op = "allocate" /\ last.a = 0) =>
        LET start == CHOOSE p \in Inserted : \A q \in Inserted : p <= q
            n == Cardinality(allocs)
        IN  IF halt = "run" /\ last.res # NULL
            THEN /\ last.res = start + n - 1
                 /\ allocs = {<<start + k, 0>> : k \in 0..(n - 1)}
            ELSE /\ halt = "run"
                 /\ n = Cardinality(Inserted)

\* C9: after insert_range(0,8) and remove_range(2,2), PFN 2 and PFN 3 are
\* Reserved and in no free list, and the free lists cover exactly the pages
\* {0,1} and {4,5,6,7}, as the block [0,2) and blocks over 4..7.
C9_PartialReservation ==
    (last = Call("remove", 2, 2, NULL) /\ Inserted = 0..7) =>
        /\ halt = "run"
        /\ type[2] = RESERVED
        /\ type[3] = RESERVED
        /\ \A o \in Orders : 2 \notin Members(o) /\ 3 \notin Members(o)
        /\ <<0, 1>> \in FreeBlocks
        /\ UNION {Range(x[1], __two_pow(x[2])) : x \in FreeBlocks} = {0, 1, 4, 5, 6, 7}
        /\ FreePages = 6

\* C5: with two contexts calling the allocator at the same time, calls are
\* atomic, so two concurrent allocate calls never return the same block (nor
\* blocks that share a page).
C5_NoDoubleAllocation ==
    \A c1, c2 \in Contexts :
        (/\ c1 # c2
         /\ ctx[c1].pc = "done" /\ ctx[c1].res # NULL
         /\ ctx[c2].pc = "done" /\ ctx[c2].res # NULL)
        => Disjoint(<<ctx[c1].res, ctx[c1].order>>, <<ctx[c2].res, ctx[c2].order>>)

\* C11: free of the block that the previous free has just freed (a double
\* free) stops with a failed assertion and changes no free list and no link.
C11_DoubleFreeAborts ==
    (Idle /\ last.op = "free") =>
        \A null_read \in NullReads :
            LET s2 == free_pages(Cur, last.a, last.b, null_read)
            IN  /\ s2.halt = "assert"
                /\ s2._free_areas = _free_areas
                /\ s2.prev_free = prev_free
                /\ s2.next_free = next_free

\* C12: an allocate(order) that finds free_head[order] non-empty returns its
\* head; on return the block is in no free list, its state is Allocated and
\* the lists of the other orders are as before.
C12_PopsHead ==
    [][(halt = "run" /\ last'.op = "allocate" /\ _free_areas[last'.a] # NULL) =>
          /\ halt' = "run"
          /\ last'.res = _free_areas[last'.a]
          /\ \A o \in Orders : last'.res \notin Members(o)'
          /\ type'[last'.res] = ALLOCATED
          /\ \A o \in Orders \ {last'.a} : FreeList(o)' = FreeList(o)]_vars

\* C13: free(block, order) of an outstanding allocation files the block in
\* free_head[order], whatever its prev_free and next_free fields hold.
C13_FiledAtCallerOrder ==
    Idle =>
        \A al \in allocs, pf \in Pages \cup {NULL}, nf \in Pages \cup {NULL} :
            LET s1 == SetNext(SetPrev(Cur, al[1], pf), al[1], nf)
                s2 == free_pages(s1, al[1], al[2], "fault")
            IN  /\ s2.halt = "run"
                /\ \E k \in 1..Len(FreeListIn(s2, al[2])) : FreeListIn(s2, al[2])[k] = al[1]

\* C14: remove_range of a range whose pages are all free returns.
C14_RemoveReturns == last.op = "remove" => halt = "run"

\* C15: a descriptor's state changes only along Invalid->Available (insert),
\* Available->Allocated (allocate), Allocated->Available (free),
\* Available->Reserved (remove) and Reserved->Available (insert).
Edge(p) ==
    \/ type'[p] = type[p]
    \/ type[p] = INVALID /\ type'[p] = AVAILABLE /\ last'.op = "insert"
    \/ type[p] = AVAILABLE /\ type'[p] = ALLOCATED /\ last'.op = "allocate"
    \/ type[p] = ALLOCATED /\ type'[p] = AVAILABLE /\ last'.op = "free"
    \/ type[p] = AVAILABLE /\ type'[p] = RESERVED /\ last'.op = "remove"
    \/ type[p] = RESERVED /\ type'[p] = AVAILABLE /\ last'.op = "insert"

C15_StateEdges == [][\A p \in Pages : Edge(p)]_vars

\* C16: every descriptor linked in a free list is Available; an Invalid or
\* Reserved descriptor is in no free list.
C16_LinkedAvailable == \A o \in Orders : \A b \in Members(o) : type[b] = AVAILABLE

C16_Witness ==
    /\ Idle /\ last.op = "remove"
    /\ \E p \in Pages : type[p] = RESERVED
    /\ \E p \in Pages : type[p] = INVALID /\ owner[p] = "free"
    /\ FreeBlocks # {}

\* C17: after insert_range(start, count) every descriptor of the range is
\* Available.
C17_InsertMarksRange ==
    (Idle /\ last.op = "insert") => \A p \in Range(last.a, last.b) : type[p] = AVAILABLE

\* C18: init fails if and only if the table's first frame number is not 0,
\* and until the first insert_range every free list is empty.
C18_InitFailsIffNonzero ==
    /\ last.op = "init" => (halt = "init" <=> last.a # 0)
    /\ (halt = "run" /\ \A p \in Pages : owner[p] = "none") =>
           \A o \in Orders : _free_areas[o] = NULL

C18_Witness == last.op = "init" /\ last.a # 0 /\ halt = "init"

\* C19: dump_state returns and changes no free_head and no descriptor.
C19_DumpReadOnly ==
    [][last'.op = "dump" =>
          (halt' = "run" /\ UNCHANGED <<type, prev_free, next_free, _free_areas>>)]_vars

C19_Witness ==
    /\ last.op = "dump"
    /\ allocs # {}
    /\ \E x, y \in FreeBlocks : x[2] # y[2]

\* C20: in the priority-value scheduler every entity that is in a runqueue
\* is eventually returned by pick_next_entity (unless the kernel stops).
AdvQueued(e) ==
    \E i \in Levels : \E k \in 1..Len(adv.runqueues[i]) : adv.runqueues[i][k].entity = e

C20_NoStarvation ==
    \A e \in Entities :
        [](AdvQueued(e) => <>((last.op = "pick" /\ last.res = e) \/ halt # "run"))

\* The level of the runqueue that holds entity e and the priority value
\* stored with it there.
AdvLevel(e) ==
    CHOOSE i \in Levels : \E k \in 1..Len(adv.runqueues[i]) : adv.runqueues[i][k].entity = e

AdvValue(e) ==
    LET rq == adv.runqueues[AdvLevel(e)]
    IN  rq[CHOOSE k \in 1..Len(rq) : rq[k].entity = e].priority_value

\* Entity e was scheduled last and is at the front of its runqueue: the next
\* pick_next_entity takes the "selected again" branch for it.
SelectedAgain(e) ==
    /\ adv._last_entity_ptr = e
    /\ \E i \in Levels : Len(adv.runqueues[i]) > 0 /\ Head(adv.runqueues[i]).entity = e

\* C21: when a previously scheduled entity is selected again, its priority
\* value rises by less than the increment of every lower priority level
\* (stated for an increment that does not stop at the upper bound 255).
C21_IncrementOrder ==
    [][\A e \in Entities :
          (/\ SelectedAgain(e)
           /\ last'.op = "pick" /\ halt' = "run"
           /\ AdvQueued(e)' /\ AdvValue(e)' < UINT8_MAX)
          => \A j \in Levels :
                 j > AdvLevel(e) =>
                     AdvValue(e)' - AdvValue(e) < RunqueueEntry(e, j)._priority_delta]_vars

\* C22: pick_next_entity of the mq scheduler returns an entity of the
\* highest-priority runqueue that is not empty (no level above the returned
\* entity's level holds a runnable entity), and returns NULL if and only if
\* all four runqueues are empty.
C22_HighestLevelFirst ==
    [][(last'.op = "mq_pick" /\ UNCHANGED entities) =>
          /\ last'.res = NULL <=> \A i \in Levels : MqRunnable(i) = {}
          /\ last'.res # NULL =>
                 \E i \in Levels :
                     /\ last'.res \in MqRunnable(i)
                     /\ entities[last'.res].priority = i
                     /\ \A j \in Levels : j < i => MqRunnable(j) = {}]_vars

\* C22 witness: pick_next_entity has returned an entity while a runqueue of
\* a lower priority level holds a runnable entity too.
C22_Witness ==
    /\ last.op = "mq_pick"
    /\ last.res # NULL
    /\ \E j \in Levels : j > entities[last.res].priority /\ MqRunnable(j) # {}

\* C23: after insert_range of an order-aligned range of 2^k pages into the
\* empty index, allocating every page with allocate(0) and freeing each with
\* free(p, 0), in any order, leaves exactly one free block: the order-k block
\* at the base of the range.
C23_FreeAllRestores ==
    (Idle /\ last.op = "free" /\ last.b = 0 /\ allocs = {}) =>
        LET start == CHOOSE p \in Inserted : \A q \in Inserted : p <= q
            k == __log2ceil(Cardinality(Inserted))
        IN  FreeBlocks = {<<start, k>>}

\* The entries of a list as a set.
Entries(list) == {list[i] : i \in 1..Len(list)}

\* C24: a successful merge(block, order) of a block of free_head[order]
\* removes exactly block and its buddy from that list and keeps the other
\* members linked in their order, wherever the pair sat in the list; it adds
\* exactly left = min(block, buddy) to free_head[order+1] and returns left.
C24_MergeFrame ==
    Idle =>
        \A o \in ReqOrders, null_read \in NullReads : \A b \in Members(o) :
            LET buddy == buddy_of(Cur, b, o)
                left == IF buddy < b THEN buddy ELSE b
                r == merge_block(Cur, b, o, null_read)
            IN  r.ok =>
                    /\ FreeListIn(r.s, o) = SelectSeq(FreeList(o), LAMBDA x : x \notin {b, buddy})
                    /\ Entries(FreeListIn(r.s, o + 1)) = Members(o + 1) \cup {left}
                    /\ Len(FreeListIn(r.s, o + 1)) = Len(FreeList(o + 1)) + 1
                    /\ r.s._free_areas[o + 1] = left

\* C25: merge(block, order) returns None and leaves every free list and every
\* descriptor other than block unchanged when the buddy lies outside the
\* table or the buddy's state is not Available.
C25_MergeDeclines ==
    Idle =>
        \A o \in ReqOrders, null_read \in NullReads : \A b \in Members(o) :
            LET buddy == buddy_of(Cur, b, o)
                r == merge_block(Cur, b, o, null_read)
            IN  (buddy = NULL \/ type[buddy] # AVAILABLE) =>
                    /\ ~r.ok
                    /\ r.s.halt = "run"
                    /\ r.s._free_areas = _free_areas
                    /\ \A p \in Pages \ {b} :
                           /\ r.s.type[p] = type[p]
                           /\ r.s.prev_free[p] = prev_free[p]
                           /\ r.s.next_free[p] = next_free[p]

\* C26: merge(block, order) coalesces only when the buddy is itself linked in
\* free_head[order]: a buddy that is an outstanding allocation or the head of
\* a free block of another order is never combined into an order+1 block.
C26_MergesOnlyFreeBuddy ==
    Idle =>
        \A o \in ReqOrders, null_read \in NullReads : \A b \in Members(o) :
            merge_block(Cur, b, o, null_read).ok => buddy_of(Cur, b, o) \in Members(o)

\* C26 witness: a block has just been freed while its buddy is an outstanding
\* allocation whose first descriptor reads AVAILABLE; merge does not combine
\* the two.
C26_Witness ==
    /\ Idle
    /\ last.op = "free"
    /\ \E o \in ReqOrders :
           /\ last.a \in Members(o)
           /\ LET buddy == buddy_of(Cur, last.a, o)
              IN  /\ buddy # NULL
                  /\ type[buddy] = AVAILABLE
                  /\ <<buddy, o>> \in allocs
                  /\ ~merge_block(Cur, last.a, o, "fault").ok

\* C27: when free_head[order] is empty and from_order is the smallest order
\* above it with a non-empty list, allocate(order) returns the base of the
\* head block of free_head[from_order]; afterwards that block is gone from
\* free_head[from_order], each order in order..from_order-1 has gained
\* exactly one block, the right half of the split at that order, and the
\* lists of the orders above from_order are unchanged.
C27_SplitsSmallestLarger ==
    [][\A order \in Orders, from_order \in Orders :
          (/\ halt = "run"
           /\ last'.op = "allocate" /\ last'.a = order
           /\ order < from_order
           /\ \A o \in order..(from_order - 1) : _free_areas[o] = NULL
           /\ _free_areas[from_order] # NULL)
          => /\ halt' = "run"
             /\ last'.res = _free_areas[from_order]
             /\ FreeList(from_order)' = Tail(FreeList(from_order))
             /\ \A o \in order..(from_order - 1) :
                    FreeList(o)' = <<_free_areas[from_order] + __two_pow(o)>>
             /\ \A o \in (from_order + 1)..MAX_ORDER : FreeList(o)' = FreeList(o)]_vars

\* C27 witness: the lists of orders 0 and 1 are empty, that of order 2 is
\* not, and allocate(0) returns the base of the order-2 head block, leaving
\* its right halves at orders 0 and 1.
C27_Witness ==
    /\ Idle
    /\ _free_areas[0] = NULL /\ _free_areas[1] = NULL /\ _free_areas[2] # NULL
    /\ LET r == allocate_pages(Cur, 0)
       IN  /\ r.s.halt = "run"
           /\ r.res = _free_areas[2]
           /\ r.s._free_areas[0] = r.res + 1
           /\ r.s._free_areas[1] = r.res + 2

\* C28: split of a free block b of order o >= 1, the head or an interior
\* member of free_head[o], removes exactly b from that list and keeps the
\* others linked; it puts b and b + 2^(o-1) at the front of free_head[o-1],
\* b first (the block it returns), and leaves the number of free pages as
\* it was.
C28_SplitFrame ==
    Idle =>
        \A o \in ReqOrders \ {0} : \A b \in Members(o) :
            LET s2 == split_block(Cur, b, o)
            IN  /\ s2.halt = "run"
                /\ FreeListIn(s2, o) = SelectSeq(FreeList(o), LAMBDA x : x # b)
                /\ FreeListIn(s2, o - 1) = <<b, b + __two_pow(o - 1)>> \o FreeList(o - 1)
                /\ \A o2 \in Orders \ {o, o - 1} : FreeListIn(s2, o2) = FreeList(o2)
                /\ FreePagesIn(s2) = FreePages

\* C28 witness: a block of order 1 that is not the head of its list is
\* split into two blocks of order 0.
C28_Witness ==
    /\ Idle
    /\ \E b \in Members(1) :
           /\ b # _free_areas[1]
           /\ split_block(Cur, b, 1).halt = "run"
           /\ split_block(Cur, b, 1)._free_areas[0] = b

\* The pages covered by the free blocks.
Covered == UNION {Range(x[1], __two_pow(x[2])) : x \in FreeBlocks}

\* C29: after remove_range(start, count) returns for a range whose pages are
\* all free, no free block intersects the range, the number of free pages
\* has gone down by exactly count, and every page outside the range that a
\* free block covered before the call is still covered by one.
C29_RemoveFrame ==
    [][(halt = "run" /\ last'.op = "remove" /\ halt' = "run") =>
          /\ Covered' \cap Range(last'.a, last'.b) = {}
          /\ FreePages' = FreePages - last'.b
          /\ Covered \ Range(last'.a, last'.b) \subseteq Covered']_vars

\* C29 witness: remove_range(0, 1) has returned after splitting the order-2
\* block at PFN 0 twice; the blocks [1,2) and [2,4) stay free.
C29_Witness ==
    /\ Idle
    /\ last = Call("remove", 0, 1, NULL)
    /\ _pgds_len = 4
    /\ type[0] = RESERVED
    /\ type[3] = INVALID
    /\ FreeBlocks = {<<1, 0>>, <<2, 1>>}

\* C30: insert_range(start, count) into an index with no free block in the
\* range returns for every count >= 0, and after it the free blocks that
\* reach into [start, start+count) tile it with no gap and no overlap; each
\* of them starts at a multiple of 2^o for its order o, and o is the largest
\* order up to MAX_ORDER for which that holds and the block ends inside the
\* range.
C30_InsertTiles ==
    last.op = "insert" =>
        LET fb == FreeBlocks
            range == Range(last.a, last.b)
        IN  /\ halt = "run"
            /\ \A p \in range :
                   Cardinality({x \in fb : p \in Range(x[1], __two_pow(x[2]))}) = 1
            /\ \A x \in fb :
                   Range(x[1], __two_pow(x[2])) \cap range # {} =>
                       /\ Range(x[1], __two_pow(x[2])) \subseteq range
                       /\ x[1] % __two_pow(x[2]) = 0
                       /\ \A o \in Orders :
                              o > x[2] => ~(/\ x[1] % __two_pow(o) = 0
                                            /\ x[1] + __two_pow(o) <= last.a + last.b)

\* C30 witness: insert_range(1, 3) has returned and added the order-0 block
\* at PFN 1 and the order-1 block at PFN 2.
C30_Witness ==
    /\ Idle
    /\ last = Call("insert", 1, 3, NULL)
    /\ {<<1, 0>>, <<2, 1>>} \subseteq FreeBlocks

\* Bitwise exclusive or of two naturals.
RECURSIVE BitXor(_, _)
BitXor(x, y) ==
    IF x = 0 /\ y = 0 THEN 0
    ELSE (((x % 2) + (y % 2)) % 2) + 2 * BitXor(x \div 2, y \div 2)

\* C31: for an order-aligned block b whose buddy lies inside the table,
\* buddy_of(b, o) is the block at PFN(b) XOR 2^o (the previous 2^o neighbour
\* when PFN(b) >> o is odd, the next when even), the buddy's buddy is b, and
\* the lower of the two is aligned to 2^(o+1).
C31_BuddyIsXor ==
    (last.op = "buddy_of" /\ halt = "run" /\ last.res # NULL) =>
        /\ last.res = BitXor(last.a, __two_pow(last.b))
        /\ last.res = IF (last.a \div __two_pow(last.b)) % 2 = 1
                      THEN last.a - __two_pow(last.b) ELSE last.a + __two_pow(last.b)
        /\ ~buddy_of_asserts(last.res, last.b)
        /\ buddy_of(Cur, last.res, last.b) = last.a
        /\ (IF last.res < last.a THEN last.res ELSE last.a) % __two_pow(last.b + 1) = 0

\* C31 witness: buddy_of has returned the previous neighbour of a block of
\* order 1.
C31_Witness ==
    /\ last.op = "buddy_of" /\ halt = "run"
    /\ last.b = 1
    /\ last.res # NULL /\ last.res < last.a

\* C32: buddy_of(b, o) of an order-aligned block returns None exactly when
\* the neighbour it computes lies outside the table [0, len) and a block
\* inside the table otherwise; it changes no free_head and no descriptor.
C32_BuddyNoneIffOutside ==
    /\ [](( last.op = "buddy_of" /\ halt = "run") =>
            LET neighbour == IF (last.a \div __two_pow(last.b)) % 2 = 1
                             THEN last.a - __two_pow(last.b)
                             ELSE last.a + __two_pow(last.b)
            IN  /\ last.res = NULL <=> ~(0 <= neighbour /\ neighbour < _pgds_len)
                /\ last.res # NULL => last.res = neighbour /\ last.res \in Pages)
    /\ [][(last'.op = "buddy_of" /\ halt' = "run") =>
              UNCHANGED <<_pgds_len, type, prev_free, next_free, _free_areas>>]_vars

\* C32 witness: on a table with free blocks, buddy_of has returned None for
\* a block whose next neighbour starts right at the end of the table.
C32_Witness ==
    /\ last.op = "buddy_of" /\ halt = "run"
    /\ last.res = NULL
    /\ last.a + __two_pow(last.b) = _pgds_len
    /\ FreeBlocks # {}

\* C33: when the scan of remove_range finds no matching or containing free
\* block at any order from MAX_ORDER down to 0, the call ends in the fatal
\* stop after order 0: the scan never goes on with an order index outside
\* 0..MAX_ORDER and never reads free_head out of bounds.
C33_ScanStopsAfterOrderZero ==
    last.op = "remove" => halt # "ub"

\* C34: after any sequence of insert_range calls on pairwise disjoint
\* ranges, no free block and its buddy are both free at the same order below
\* MAX_ORDER, also when a range was inserted next to pages already free.
C34_InsertCoalesces == (last.op = "insert" /\ halt = "run") => MaximallyCoalesced

\* C35: in every reachable state each free_head[o] is a well-formed
\* doubly-linked list: the head's prev_free is null, every member's successor
\* points back to it, and the list is acyclic and null-terminated. So the
\* head of a list never fails allocate's assertion that its prev_free is
\* null, and a member that is not the head never fails reserve_block's
\* assertion that its prev_free is not null.
C35_WellFormedLists ==
    \A o \in Orders :
        LET list == FreeList(o)
        IN  /\ Len(list) <= _pgds_len
            /\ \A i, j \in 1..Len(list) : list[i] = list[j] => i = j
            /\ list # <<>> => prev_free[list[1]] = NULL
            /\ \A k \in 1..(Len(list) - 1) :
                   /\ prev_free[list[k + 1]] = list[k]
                   /\ prev_free[list[k + 1]] # NULL

\* C35 witness: remove_range has returned after unlinking a block that was
\* not the head of its list, and a list of two blocks is left.
C35_Witness ==
    /\ Idle /\ last.op = "remove"
    /\ allocs # {}
    /\ \E o \in Orders : Len(FreeList(o)) >= 2
    /\ \E p \in Pages : type[p] = RESERVED /\ next_free[p] = NULL /\ prev_free[p] # NULL

\* C36: allocate and remove_range succeed on every free block, also on one
\* whose buddy would lie outside the descriptor table: a call on a table
\* whose lists are well formed never stops on the assertion that the block's
\* buddy is inside the table.
C36_BuddyAssertNeverFails ==
    (last.op \in {"allocate", "remove"}) => halt # "assert"

\* The entities that have an entry in runqueue i of the adv scheduler.
AdvMembers(i) == {adv.runqueues[i][k].entity : k \in 1..Len(adv.runqueues[i])}

\* C37: pick_next_entity of the priority-value scheduler leaves in every
\* runqueue the same set of entities as before the call, each exactly once,
\* whether or not the front entity was the one selected by the last call.
C37_PickKeepsMembers ==
    [][(last'.op = "pick" /\ halt' # "fault") =>
          \A i \in Levels :
              /\ AdvMembers(i)' = AdvMembers(i)
              /\ Len(adv'.runqueues[i]) = Len(adv.runqueues[i])
              /\ Cardinality(AdvMembers(i)') = Len(adv'.runqueues[i])]_vars

C39_LockHeldOnce ==
    /\ ctx[1].pc \in {"access", "update", "release"} =>
           (irq.acquired = 1 /\ irq.released = 0 /\ ~irq.enabled)
    /\ ctx[1].pc = "done" => (irq.acquired = 1 /\ irq.released = 1)
    /\ last.op = "irq_pick" => last.a = 0

\* C40: increment and decrement saturate the 8-bit priority value at 255 and
\* at 0: for every value in 0..255 and every delta in {1, 2, 4, 8} the result
\* is min(value + delta, 255), respectively max(value - delta, 0), never the
\* sum or difference modulo 256, and it differs from the value unless the
\* value is already at the bound, which is what pick_next_entity asserts.
C40_Saturates ==
    /\ last.b \in {1, 2, 4, 8}
    /\ last.a \in 0..UINT8_MAX /\ last.res \in 0..UINT8_MAX
    /\ last.op = "increment" =>
           /\ last.res = IF last.a + last.b > UINT8_MAX THEN UINT8_MAX ELSE last.a + last.b
           /\ last.a = UINT8_MAX \/ last.a # last.res
    /\ last.op = "decrement" =>
           /\ last.res = IF last.a - last.b < 0 THEN 0 ELSE last.a - last.b
           /\ last.a = 0 \/ last.a # last.res

\* C40 witness: increment has taken a value within delta of 255 to 255, where
\* the 8-bit sum would have wrapped.
C40_Witness ==
    /\ last.op = "increment"
    /\ last.a = 250 /\ last.b = 8
    /\ last.res = UINT8_MAX

====
